---- MODULE Spec2Model ----
(***************************************************************************)
(* A model of the NeuralNetworkVisualizer React component                  *)
(* (src/unnamed/part_000, the version with the diagram label; the copy in  *)
(* src/src/components differs only by the missing label field and the      *)
(* missing +30 label offset).                                               *)
(*                                                                         *)
(* JavaScript strings are sequences of one-character strings, so that      *)
(* split, trim, parseInt and parseFloat are modelled by what they do.      *)
(* A JavaScript number that may be NaN is a record [nan, num].             *)
(***************************************************************************)
EXTENDS Integers, Sequences, FiniteSets, TLC

VARIABLES
    config,             \* useState<NeuralNetworkConfig>: [inputNodes, hiddenLayers, outputNodes]
    speed,              \* useState(1): a decimal [nan, m, e] standing for m * 10^(-e)
    renderKey,          \* useState(0)
    hiddenLayersInput,  \* useState("4"): the raw text of the hidden-layers field
    error,              \* useState<string | null>(null)
    diagramName,        \* useState("My Neural Network")
    view,               \* the element tree returned by the last render
    lastName,           \* e.target.name of the last change event handled
    lastValue,          \* e.target.value of the last change event handled
    pc,                 \* "mounting" until the mount effect ran, then "idle";
                        \* "input" / "done" in the two function specifications
    value,              \* the text handed to the parsing pipeline (ParseSpec)
    parsedLayers,       \* the result of the parsing pipeline (ParseSpec)
    layers,             \* the layer sequence handed to the layout (LayoutSpec)
    neurons,            \* the node positions computed from layers (LayoutSpec)
    connections         \* the connections computed from layers (LayoutSpec)

vars == <<config, speed, renderKey, hiddenLayersInput, error, diagramName, view,
          lastName, lastValue, pc, value, parsedLayers, layers, neurons, connections>>

widgetVars == <<config, speed, renderKey, hiddenLayersInput, error, diagramName,
                view, lastName, lastValue>>

parseVars == <<value, parsedLayers>>

layoutVars == <<layers, neurons, connections>>

-----------------------------------------------------------------------------
(* Bounds of the model.                                                    *)

\* the render token stops the model once it reaches this value
MaxRenderKey == 4
\* longest text handed to the parsing pipeline in ParseSpec
MaxParseLen == 4
\* most layers handed to the layout in LayoutSpec
MaxLayers == 3
\* largest layer handed to the layout in LayoutSpec
MaxSize == 3

ParseChars == {"4", "0", "-", ",", " ", "x"}

\* every text over chars of length at most n
Texts(chars, n) == UNION {[1..k -> chars] : k \in 0..n}

-----------------------------------------------------------------------------
(* JavaScript numbers, strings and the library functions the handler uses. *)

NaN == [nan |-> TRUE, num |-> 0]

Num(n) == [nan |-> FALSE, num |-> n]

isNaN(n) == n.nan

WhiteSpace == {" "}

HexDigits == <<"0", "1", "2", "3", "4", "5", "6", "7", "8", "9",
               "a", "b", "c", "d", "e", "f">>

UpperHexDigits == <<"0", "1", "2", "3", "4", "5", "6", "7", "8", "9",
                    "A", "B", "C", "D", "E", "F">>

\* c is a digit of the given radix
IsDigit(c, radix) ==
    \E i \in 1..radix : HexDigits[i] = c \/ UpperHexDigits[i] = c

DigitValue(c) ==
    (CHOOSE i \in 1..16 : HexDigits[i] = c \/ UpperHexDigits[i] = c) - 1

RECURSIVE TrimStart(_)
TrimStart(s) ==
    IF s # <<>> /\ Head(s) \in WhiteSpace THEN TrimStart(Tail(s)) ELSE s

RECURSIVE TrimEnd(_)
TrimEnd(s) ==
    IF s # <<>> /\ s[Len(s)] \in WhiteSpace
    THEN TrimEnd(SubSeq(s, 1, Len(s) - 1))
    ELSE s

\* String.prototype.trim
Trim(s) == TrimEnd(TrimStart(s))

\* the longest prefix of s made of digits of the radix
RECURSIVE DigitPrefix(_, _)
DigitPrefix(s, radix) ==
    IF s # <<>> /\ IsDigit(Head(s), radix)
    THEN <<Head(s)>> \o DigitPrefix(Tail(s), radix)
    ELSE <<>>

RECURSIVE DigitsToInt(_, _, _)
DigitsToInt(s, radix, acc) ==
    IF s = <<>> THEN acc
    ELSE DigitsToInt(Tail(s), radix, acc * radix + DigitValue(Head(s)))

\* parseInt(s) with no radix argument: leading white space is skipped, a sign
\* is read, a 0x / 0X prefix selects radix 16, the longest run of digits is
\* the value, and NaN is the result when that run is empty.
parseInt(s) ==
    LET t == TrimStart(s)
        sign == IF t # <<>> /\ Head(t) = "-" THEN -1 ELSE 1
        u == IF t # <<>> /\ Head(t) \in {"+", "-"} THEN Tail(t) ELSE t
        hex == Len(u) >= 2 /\ u[1] = "0" /\ u[2] \in {"x", "X"}
        R == IF hex THEN 16 ELSE 10
        w == IF hex THEN Tail(Tail(u)) ELSE u
        Z == DigitPrefix(w, R)
    IN  IF Z = <<>> THEN NaN ELSE Num(sign * DigitsToInt(Z, R, 0))

\* String.prototype.split(sep) for a one-character separator: "" gives [""]
RECURSIVE SplitFrom(_, _, _)
SplitFrom(s, sep, cur) ==
    IF s = <<>> THEN <<cur>>
    ELSE IF Head(s) = sep THEN <<cur>> \o SplitFrom(Tail(s), sep, <<>>)
    ELSE SplitFrom(Tail(s), sep, Append(cur, Head(s)))

split(s, sep) == SplitFrom(s, sep, <<>>)

\* a decimal m * 10^(-e) without trailing fraction zeros, so that equal
\* numbers are equal values
RECURSIVE Normal(_, _)
Normal(m, e) ==
    IF m = 0 THEN [nan |-> FALSE, m |-> 0, e |-> 0]
    ELSE IF e > 0 /\ m % 10 = 0 THEN Normal(m \div 10, e - 1)
    ELSE [nan |-> FALSE, m |-> m, e |-> e]

\* parseFloat(s) on texts without sign and exponent characters: the longest
\* prefix digits [. digits] or . digits, and NaN when it has no digit.
parseFloat(s) ==
    LET t == TrimStart(s)
        ip == DigitPrefix(t, 10)
        rest == SubSeq(t, Len(ip) + 1, Len(t))
        fp == IF rest # <<>> /\ Head(rest) = "."
              THEN DigitPrefix(Tail(rest), 10)
              ELSE <<>>
    IN  IF ip = <<>> /\ fp = <<>>
        THEN [nan |-> TRUE, m |-> 0, e |-> 0]
        ELSE Normal(DigitsToInt(ip \o fp, 10, 0), Len(fp))

\* Number.prototype.toString for an integer, as a text
RECURSIVE NatToString(_)
NatToString(n) ==
    IF n < 10 THEN <<HexDigits[n + 1]>>
    ELSE NatToString(n \div 10) \o <<HexDigits[(n % 10) + 1]>>

RECURSIVE Flat(_)
Flat(ss) == IF ss = <<>> THEN <<>> ELSE Head(ss) \o Flat(Tail(ss))

RECURSIVE MaxOf(_)
MaxOf(s) ==
    IF Len(s) = 1 THEN s[1]
    ELSE LET m == MaxOf(Tail(s)) IN IF s[1] >= m THEN s[1] ELSE m

-----------------------------------------------------------------------------
(* The component: constants, handler pieces, layout and render.            *)

layerDistance == 150
neuronDistance == 40
\* the x of layer 0, and the y offset reserved for the diagram name
leftMargin == 50
labelReserve == 30
\* width = (layers.length - 1) * layerDistance + 100
widthPadding == 100

Null == "null"

ErrorMessage ==
    "Invalid hidden layers input. Please enter comma-separated numbers (e.g., 4,3,2) or leave empty."

InitialName == <<"M", "y", " ", "N", "e", "u", "r", "a", "l", " ",
                 "N", "e", "t", "w", "o", "r", "k">>

InitialConfig == [inputNodes |-> 3, hiddenLayers |-> <<4>>, outputNodes |-> 2]

InitialSpeed == [nan |-> FALSE, m |-> 1, e |-> 0]

\* a variant that keeps only truthy values: .filter(n => n)
ParseLayersTruthy(v) ==
    LET segs == split(v, ",")
        mapped == [i \in 1..Len(segs) |-> parseInt(Trim(segs[i]))]
        kept == SelectSeq(mapped, LAMBDA n : ~isNaN(n) /\ n.num # 0)
    IN  [i \in 1..Len(kept) |-> kept[i].num]

\* value.split(',').map(n => parseInt(n.trim())).filter(n => !isNaN(n))
ParseLayers(v) ==
    LET segs == split(v, ",")
        mapped == [i \in 1..Len(segs) |-> parseInt(Trim(segs[i]))]
        kept == SelectSeq(mapped, LAMBDA n : ~isNaN(n))
    IN  [i \in 1..Len(kept) |-> kept[i].num]

\* a variant without the empty-text exemption: parsedLayers.length === 0
RejectedWhenEmpty(parsed, v) == Len(parsed) = 0

\* parsedLayers.length === 0 && value !== ''
Rejected(parsed, v) == Len(parsed) = 0 /\ v # <<>>

\* a variant that stores the trimmed text: setHiddenLayersInput(value.trim())
StoredTextTrimmed(v) == Trim(v)

\* the argument of setHiddenLayersInput
StoredText(v) == v

\* a variant without the clamp: parseInt(value) || 1
ClampNodeNoMax(v) ==
    LET n == parseInt(v)
    IN  IF isNaN(n) \/ n.num = 0 THEN 1 ELSE n.num

\* Math.max(parseInt(value) || 1, 1)
ClampNode(v) ==
    LET n == parseInt(v)
        orOne == IF isNaN(n) \/ n.num = 0 THEN 1 ELSE n.num
    IN  IF orOne >= 1 THEN orOne ELSE 1

\* a variant without the diagramName branch, so that the field falls through
\* to the node-count branch
BranchWithoutName(name) ==
    IF name = "hiddenLayers" THEN "hiddenLayers"
    ELSE IF name = "speed" THEN "speed"
    ELSE "else"

\* the branch of handleInputChange taken for a field name
Branch(name) ==
    IF name = "hiddenLayers" THEN "hiddenLayers"
    ELSE IF name = "speed" THEN "speed"
    ELSE IF name = "diagramName" THEN "diagramName"
    ELSE "else"

\* { ...prev, [name]: v }
SetConfig(prev, name, v) ==
    [k \in DOMAIN prev \cup {name} |-> IF k = name THEN v ELSE prev[k]]

\* a variant with dependencies [config]
DepsConfigOnly(configSet, oldSpeed, newSpeed, oldText, newText) == configSet

\* a variant with dependencies [config, speed, hiddenLayersInput]
DepsWithText(configSet, oldSpeed, newSpeed, oldText, newText) ==
    configSet \/ oldSpeed # newSpeed \/ oldText # newText

\* whether the effect with dependencies [config, speed] runs after an update:
\* every setConfig call makes a new object, speed is compared by value
DepsChanged(configSet, oldSpeed, newSpeed, oldText, newText) ==
    configSet \/ oldSpeed # newSpeed

\* setRenderKey(prevKey => prevKey + 1)
EffectKey(prevKey) == prevKey + 1

\* [config.inputNodes, ...config.hiddenLayers, config.outputNodes]
Layers(cfg) == <<cfg.inputNodes>> \o cfg.hiddenLayers \o <<cfg.outputNodes>>

Width(ls) == (Len(ls) - 1) * layerDistance + widthPadding

Height(ls) == MaxOf(ls) * neuronDistance

\* the length of Array.from({ length: n }) for an integer n
ArrayLength(n) == IF n > 0 THEN n ELSE 0

\* layers.map((nodeCount, layerIndex) => Array.from({ length: nodeCount }, ...))
Neurons(ls) ==
    [i \in 1..Len(ls) |->
        [j \in 1..ArrayLength(ls[i]) |->
            [x |-> (i - 1) * layerDistance + leftMargin,
             y |-> (j - 1) * neuronDistance
                   + (Height(ls) - (ls[i] - 1) * neuronDistance) \div 2
                   + labelReserve]]]

\* `${layerIndex}-${startIndex}-${endIndex}`
ConnectionKey(layerIndex, startIndex, endIndex) ==
    NatToString(layerIndex) \o <<"-">> \o NatToString(startIndex)
        \o <<"-">> \o NatToString(endIndex)

\* a variant that joins a layer to itself: neurons[layerIndex]
TargetLayerSelf(layerIndex) == layerIndex

\* the layer joined to layer layerIndex (0-based): neurons[layerIndex + 1]
TargetLayer(layerIndex) == layerIndex + 1

\* layers.slice(0, -1).flatMap((_, layerIndex) =>
\*   neurons[layerIndex].flatMap((startNeuron, startIndex) =>
\*     neurons[layerIndex + 1].map((endNeuron, endIndex) => ({...}))))
Connections(ls) ==
    LET ns == Neurons(ls)
    IN  Flat([li \in 1..(Len(ls) - 1) |->
            Flat([si \in 1..Len(ns[li]) |->
                [ei \in 1..Len(ns[TargetLayer(li - 1) + 1]) |->
                    [startX |-> ns[li][si].x,
                     startY |-> ns[li][si].y,
                     endX |-> ns[TargetLayer(li - 1) + 1][ei].x,
                     endY |-> ns[TargetLayer(li - 1) + 1][ei].y,
                     key |-> ConnectionKey(li - 1, si - 1, ei - 1)]]])])

ConnPrefix == <<"c", "o", "n", "n", "-">>
NeuronPrefix == <<"n", "e", "u", "r", "o", "n", "-">>
FlowPrefix == <<"f", "l", "o", "w", "-">>

\* a variant that never suppresses the diagram
ShowsErrorNever(err) == FALSE

\* error ? <alert> : <svg>
ShowsError(err) == err # Null /\ err # ""

\* the returned element tree: the alert, or the svg with its label, lines,
\* circles and animated markers
Render(cfg, spd, key, err, name) ==
    IF ShowsError(err)
    THEN [alerts |-> <<err>>, svgs |-> <<>>]
    ELSE LET ls == Layers(cfg)
             conns == Connections(ls)
             flat == Flat(Neurons(ls))
         IN  [alerts |-> <<>>,
              svgs |-> <<[key |-> key,
                          width |-> Width(ls),
                          height |-> Height(ls) + labelReserve,
                          text |-> name,
                          lines |-> [k \in 1..Len(conns) |->
                              [key |-> ConnPrefix \o conns[k].key,
                               x1 |-> conns[k].startX, y1 |-> conns[k].startY,
                               x2 |-> conns[k].endX, y2 |-> conns[k].endY]],
                          circles |-> [k \in 1..Len(flat) |->
                              [key |-> NeuronPrefix \o NatToString(k - 1),
                               cx |-> flat[k].x, cy |-> flat[k].y]],
                          flows |-> [k \in 1..Len(conns) |->
                              [key |-> FlowPrefix \o conns[k].key,
                               startX |-> conns[k].startX, startY |-> conns[k].startY,
                               endX |-> conns[k].endX, endY |-> conns[k].endY,
                               speed |-> spd]]]>>]

-----------------------------------------------------------------------------
(* The texts the fields deliver.                                           *)

\* "", "abc", " ", "2", "0", "4,3,2", "4, ,2"
HiddenTexts ==
    { <<>>,
      <<"a", "b", "c">>,
      <<" ">>,
      <<"2">>,
      <<"0">>,
      <<"4", ",", "3", ",", "2">>,
      <<"4", ",", " ", ",", "2">> }

\* "", "0", "-5", "abc", "2", "4x"
NodeTexts ==
    { <<>>,
      <<"0">>,
      <<"-", "5">>,
      <<"a", "b", "c">>,
      <<"2">>,
      <<"4", "x">> }

\* "0.5", "2", "2.0"
SpeedTexts ==
    { <<"0", ".", "5">>,
      <<"2">>,
      <<"2", ".", "0">> }

\* "", "A"
NameTexts == { <<>>, <<"A">> }

NodeFields == {"inputNodes", "outputNodes"}

-----------------------------------------------------------------------------
(* The widget.                                                             *)

Init ==
    /\ config = InitialConfig
    /\ speed = InitialSpeed
    /\ renderKey = 0
    /\ hiddenLayersInput = <<"4">>
    /\ error = Null
    /\ diagramName = InitialName
    /\ view = Render(InitialConfig, InitialSpeed, 0, Null, InitialName)
    /\ lastName = "none"
    /\ lastValue = <<>>
    /\ pc = "mounting"
    /\ value = <<>>
    /\ parsedLayers = <<>>
    /\ layers = <<>>
    /\ neurons = <<>>
    /\ connections = <<>>

\* the effect runs once after the first render
MountEffect ==
    /\ pc = "mounting"
    /\ pc' = "idle"
    /\ renderKey' = EffectKey(renderKey)
    /\ view' = Render(config, speed, renderKey', error, diagramName)
    /\ UNCHANGED <<config, speed, hiddenLayersInput, error, diagramName,
                   lastName, lastValue, parseVars, layoutVars>>

\* handleInputChange for a change event of field name with text v, the
\* effect that follows the update, and the render of the new state
HandleInputChange(name, v) ==
    LET branch == Branch(name)
        parsed == ParseLayers(v)
        rejected == Rejected(parsed, v)
        accepted == branch = "hiddenLayers" /\ ~rejected
        configSet == accepted \/ branch = "else"
        newConfig == IF accepted THEN SetConfig(config, "hiddenLayers", parsed)
                     ELSE IF branch = "else" THEN SetConfig(config, name, ClampNode(v))
                     ELSE config
        newSpeed == IF branch = "speed" THEN parseFloat(v) ELSE speed
        newText == IF branch = "hiddenLayers" THEN StoredText(v) ELSE hiddenLayersInput
        newError == IF branch # "hiddenLayers" THEN error
                    ELSE IF rejected THEN ErrorMessage ELSE Null
        newName == IF branch = "diagramName" THEN v ELSE diagramName
        runs == DepsChanged(configSet, speed, newSpeed, hiddenLayersInput, newText)
    IN  /\ pc = "idle"
        /\ runs => renderKey < MaxRenderKey
        /\ config' = newConfig
        /\ speed' = newSpeed
        /\ hiddenLayersInput' = newText
        /\ error' = newError
        /\ diagramName' = newName
        /\ renderKey' = IF runs THEN EffectKey(renderKey) ELSE renderKey
        /\ view' = Render(newConfig, newSpeed, renderKey', newError, newName)
        /\ lastName' = name
        /\ lastValue' = v
        /\ UNCHANGED <<pc, parseVars, layoutVars>>

ChangeHiddenLayers == \E v \in HiddenTexts : HandleInputChange("hiddenLayers", v)

ChangeSpeed == \E v \in SpeedTexts : HandleInputChange("speed", v)

ChangeDiagramName == \E v \in NameTexts : HandleInputChange("diagramName", v)

ChangeNodeCount ==
    \E name \in NodeFields : \E v \in NodeTexts : HandleInputChange(name, v)

Next ==
    \/ MountEffect
    \/ ChangeHiddenLayers
    \/ ChangeSpeed
    \/ ChangeDiagramName
    \/ ChangeNodeCount

Spec == Init /\ [][Next]_vars

-----------------------------------------------------------------------------
(* The parsing pipeline of the hidden-layers branch, applied to one text.  *)

\* "4,3,2", "4, ,2", "4,x,2", "abc"
ExampleTexts ==
    { <<"4", ",", "3", ",", "2">>,
      <<"4", ",", " ", ",", "2">>,
      <<"4", ",", "x", ",", "2">>,
      <<"a", "b", "c">> }

ParseInputs == Texts(ParseChars, MaxParseLen) \cup ExampleTexts

ParseInit ==
    /\ config = InitialConfig
    /\ speed = InitialSpeed
    /\ renderKey = 0
    /\ hiddenLayersInput = <<"4">>
    /\ error = Null
    /\ diagramName = InitialName
    /\ view = Render(InitialConfig, InitialSpeed, 0, Null, InitialName)
    /\ lastName = "none"
    /\ lastValue = <<>>
    /\ pc = "input"
    /\ value \in ParseInputs
    /\ parsedLayers = <<>>
    /\ layers = <<>>
    /\ neurons = <<>>
    /\ connections = <<>>

\* const parsedLayers = ...; if (rejected) setError(message) else setError(null)
ParseValue ==
    /\ pc = "input"
    /\ pc' = "done"
    /\ parsedLayers' = ParseLayers(value)
    /\ error' = IF Rejected(ParseLayers(value), value) THEN ErrorMessage ELSE Null
    /\ UNCHANGED <<config, speed, renderKey, hiddenLayersInput, diagramName, view,
                   lastName, lastValue, value, layoutVars>>

ParseNext == ParseValue

ParseSpec == ParseInit /\ [][ParseNext]_vars

-----------------------------------------------------------------------------
(* The layout, applied to one layer sequence. Sizes below 1 are among the   *)
(* inputs: the layout code accepts them.                                    *)

LayerSeqs == UNION {[1..n -> (-1)..MaxSize] : n \in 2..MaxLayers}

LayoutInit ==
    /\ config = InitialConfig
    /\ speed = InitialSpeed
    /\ renderKey = 0
    /\ hiddenLayersInput = <<"4">>
    /\ error = Null
    /\ diagramName = InitialName
    /\ view = Render(InitialConfig, InitialSpeed, 0, Null, InitialName)
    /\ lastName = "none"
    /\ lastValue = <<>>
    /\ pc = "input"
    /\ value = <<>>
    /\ parsedLayers = <<>>
    /\ layers \in LayerSeqs
    /\ neurons = <<>>
    /\ connections = <<>>

ComputeLayout ==
    /\ pc = "input"
    /\ pc' = "done"
    /\ neurons' = Neurons(layers)
    /\ connections' = Connections(layers)
    /\ UNCHANGED <<widgetVars, parseVars, layers>>

LayoutNext == ComputeLayout

LayoutSpec == LayoutInit /\ [][LayoutNext]_vars

-----------------------------------------------------------------------------
(* Definitions the properties are stated with. They read a text by the      *)
(* positions of its commas and do not use the pipeline of the handler.      *)

CommaAt(t) == {i \in 1..Len(t) : t[i] = ","}

\* the positions after which a segment starts: 0 and every comma
SegmentStarts(t) == {0} \cup CommaAt(t)

\* the segment that starts after position p: up to the next comma or the end
SegmentAfter(t, p) ==
    LET ends == {i \in CommaAt(t) \cup {Len(t) + 1} : i > p}
        q == CHOOSE i \in ends : \A j \in ends : i <= j
    IN  SubSeq(t, p + 1, q - 1)

SegmentParses(t, p) == ~isNaN(parseInt(Trim(SegmentAfter(t, p))))

\* the values of the segments that parse, from position p on, in order
RECURSIVE ValuesFrom(_, _)
ValuesFrom(t, p) ==
    IF p > Len(t) THEN <<>>
    ELSE IF p \notin SegmentStarts(t) THEN ValuesFrom(t, p + 1)
    ELSE IF SegmentParses(t, p)
         THEN <<parseInt(Trim(SegmentAfter(t, p))).num>> \o ValuesFrom(t, p + 1)
         ELSE ValuesFrom(t, p + 1)

ExpectedLayers(t) == ValuesFrom(t, 0)

HasParseableSegment(t) == \E p \in SegmentStarts(t) : SegmentParses(t, p)

\* the node count a text stands for: its integer when that is at least 1
ExpectedCount(t) ==
    LET n == parseInt(t)
    IN  IF ~isNaN(n) /\ n.num >= 1 THEN n.num ELSE 1

RECURSIVE SumOf(_)
SumOf(s) == IF s = <<>> THEN 0 ELSE Head(s) + SumOf(Tail(s))

\* the sum of the products of adjacent sizes
RECURSIVE AdjacentProducts(_)
AdjacentProducts(s) ==
    IF Len(s) < 2 THEN 0 ELSE s[1] * s[2] + AdjacentProducts(Tail(s))

\* what the view shows
ViewCircles == IF view.svgs = <<>> THEN <<>> ELSE view.svgs[1].circles
ViewLines == IF view.svgs = <<>> THEN <<>> ELSE view.svgs[1].lines
ViewFlows == IF view.svgs = <<>> THEN <<>> ELSE view.svgs[1].flows
ViewSize == IF view.svgs = <<>> THEN <<>>
            ELSE <<view.svgs[1].width, view.svgs[1].height>>

-----------------------------------------------------------------------------
(* C1: in every reachable state of the widget the TopologyConfig is well-   *)
(* formed: inputNodes >= 1, outputNodes >= 1, every hidden layer >= 1 and   *)
(* the layer sequence has at least two layers.                              *)
C1_WellFormed ==
    /\ config.inputNodes >= 1
    /\ config.outputNodes >= 1
    /\ \A i \in 1..Len(config.hiddenLayers) : config.hiddenLayers[i] >= 1
    /\ Len(Layers(config)) >= 2

(* C2: the error is set, to the one fixed message, exactly when the stored  *)
(* raw text is non-empty and has no segment that parses; a hidden-layers    *)
(* edit to an empty text or to a text with a parseable segment leaves the   *)
(* error null, and an edit of another field does not change the error.      *)
C2_ErrorIffUnparseable ==
    /\ [](/\ error \in {Null, ErrorMessage}
          /\ error # Null <=>
                (hiddenLayersInput # <<>> /\ ~HasParseableSegment(hiddenLayersInput)))
    /\ [][/\ (lastName' = "hiddenLayers"
                /\ (lastValue' = <<>> \/ HasParseableSegment(lastValue')))
             => error' = Null
          /\ lastName' # "hiddenLayers" => error' = error]_vars

C2_Witness ==
    /\ error = ErrorMessage
    /\ lastName = "outputNodes"
    /\ hiddenLayersInput = <<"a", "b", "c">>

(* C3: while the widget is Valid the hidden-layer list is the parse of the  *)
(* stored raw text, and the stored raw text is the value of the last        *)
(* hidden-layers edit, or "4" when there was none.                          *)
C3_RawAndParsedInSync ==
    /\ hiddenLayersInput = <<"4">>
    /\ [](error = Null => config.hiddenLayers = ExpectedLayers(hiddenLayersInput))
    /\ [][/\ lastName' = "hiddenLayers" => hiddenLayersInput' = lastValue'
          /\ lastName' # "hiddenLayers" => hiddenLayersInput' = hiddenLayersInput]_vars

C3_Witness ==
    /\ error = Null
    /\ lastName = "hiddenLayers"
    /\ hiddenLayersInput = <<"4", ",", " ", ",", "2">>
    /\ config.hiddenLayers = <<4, 2>>

(* C4: the parsed list is, in order, the integer value of every comma-      *)
(* separated, trimmed segment that parses, the other segments dropped;      *)
(* "4,3,2" gives [4,3,2], "4, ,2" and "4,x,2" give [4,2], "" gives [] and   *)
(* is Valid, "abc" gives [] and is Invalid.                                 *)
C4_Parsing ==
    pc = "done" =>
        /\ parsedLayers = ExpectedLayers(value)
        /\ value = <<"4", ",", "3", ",", "2">> => parsedLayers = <<4, 3, 2>>
        /\ value = <<"4", ",", " ", ",", "2">> => parsedLayers = <<4, 2>>
        /\ value = <<"4", ",", "x", ",", "2">> => parsedLayers = <<4, 2>>
        /\ value = <<>> => (parsedLayers = <<>> /\ error = Null)
        /\ value = <<"a", "b", "c">> => (parsedLayers = <<>> /\ error = ErrorMessage)

C4_Witness ==
    /\ pc = "done"
    /\ value = <<"4", ",", "x", ",", "2">>
    /\ parsedLayers = <<4, 2>>
    /\ error = Null

(* C5: an edit of inputNodes or outputNodes sets that field to the integer  *)
(* of the text when it is at least 1 and to 1 otherwise, and leaves the     *)
(* other node count and the hidden-layer list unchanged.                    *)
C5_NodeCountClamped ==
    [][\A f \in NodeFields :
          lastName' = f =>
              /\ DOMAIN config' = DOMAIN config
              /\ config'[f] = ExpectedCount(lastValue')
              /\ \A k \in DOMAIN config \ {f} : config'[k] = config[k]]_vars

C5_Witness ==
    /\ lastName = "inputNodes"
    /\ lastValue = <<"-", "5">>
    /\ config.inputNodes = 1
    /\ config.outputNodes = 2
    /\ config.hiddenLayers = <<4>>

(* C6: for a layer sequence of at least two layers, each of size >= 1, the  *)
(* layout has s_i nodes in layer i and the sum of s_i * s_(i+1) connections:*)
(* exactly one for each pair of nodes of adjacent layers, and no two        *)
(* connections share an id.                                                 *)
C6_LayoutCounts ==
    (pc = "done" /\ Len(layers) >= 2 /\ \A i \in 1..Len(layers) : layers[i] >= 1) =>
        /\ Len(neurons) = Len(layers)
        /\ \A i \in 1..Len(layers) : Len(neurons[i]) = layers[i]
        /\ Len(Flat(neurons)) = SumOf(layers)
        /\ Len(connections) = AdjacentProducts(layers)
        /\ \A i \in 1..(Len(layers) - 1) :
             \A a \in 1..layers[i] : \A b \in 1..layers[i + 1] :
                Cardinality({k \in 1..Len(connections) :
                    /\ connections[k].startX = neurons[i][a].x
                    /\ connections[k].startY = neurons[i][a].y
                    /\ connections[k].endX = neurons[i + 1][b].x
                    /\ connections[k].endY = neurons[i + 1][b].y}) = 1
        /\ \A k \in 1..Len(connections) : \A l \in 1..Len(connections) :
             connections[k].key = connections[l].key => k = l

C6_Witness ==
    /\ pc = "done"
    /\ layers = <<3, 1, 2>>
    /\ Len(connections) = 5
    /\ Len(Flat(neurons)) = 6

(* C7: the render token never decreases, and a step that changes the        *)
(* TopologyConfig or the speed leaves it strictly greater.                  *)
C7_TokenMonotone ==
    [][/\ renderKey' >= renderKey
       /\ (config' # config \/ speed' # speed) => renderKey' > renderKey]_vars

C7_Witness ==
    /\ lastName = "speed"
    /\ speed = [nan |-> FALSE, m |-> 5, e |-> 1]
    /\ renderKey = 3

(* C8: an edit of the diagram name, the empty name included, leaves the     *)
(* TopologyConfig, the raw hidden-layers text, the error, the speed and the *)
(* drawn nodes, connections and markers unchanged, and the canvas keeps     *)
(* its 30-unit label reserve.                                               *)
C8_NameLeavesLayout ==
    [][lastName' = "diagramName" =>
          /\ UNCHANGED <<config, hiddenLayersInput, error, speed>>
          /\ ViewCircles' = ViewCircles
          /\ ViewLines' = ViewLines
          /\ ViewFlows' = ViewFlows
          /\ ViewSize' = ViewSize
          /\ error' = Null =>
               ViewSize' = <<Width(Layers(config')),
                             Height(Layers(config')) + labelReserve>>]_vars

C8_Witness ==
    /\ lastName = "diagramName"
    /\ diagramName = <<>>
    /\ error = Null
    /\ view.svgs[1].text = <<>>
    /\ config.inputNodes = 2

(* C9: an Invalid state shows no node, no connection and no marker and      *)
(* exactly one error message; a Valid state shows the nodes, connections    *)
(* and markers of the layout of the current TopologyConfig.                 *)
C9_RenderMatchesState ==
    LET ls == Layers(config)
        ns == Flat(Neurons(ls))
        cs == Connections(ls)
    IN  /\ error # Null =>
            /\ ViewCircles = <<>> /\ ViewLines = <<>> /\ ViewFlows = <<>>
            /\ view.alerts = <<ErrorMessage>>
        /\ error = Null =>
            /\ view.alerts = <<>>
            /\ Len(view.svgs) = 1
            /\ Len(ViewCircles) = Len(ns)
            /\ \A k \in 1..Len(ns) :
                 ViewCircles[k].cx = ns[k].x /\ ViewCircles[k].cy = ns[k].y
            /\ Len(ViewLines) = Len(cs) /\ Len(ViewFlows) = Len(cs)
            /\ \A k \in 1..Len(cs) :
                 /\ <<ViewLines[k].x1, ViewLines[k].y1, ViewLines[k].x2, ViewLines[k].y2>>
                        = <<cs[k].startX, cs[k].startY, cs[k].endX, cs[k].endY>>
                 /\ <<ViewFlows[k].startX, ViewFlows[k].startY,
                      ViewFlows[k].endX, ViewFlows[k].endY>>
                        = <<cs[k].startX, cs[k].startY, cs[k].endX, cs[k].endY>>

C9_Witness ==
    /\ error = Null
    /\ lastName = "hiddenLayers"
    /\ hiddenLayersInput = <<>>
    /\ config.inputNodes = 1
    /\ Len(ViewCircles) = 3
    /\ Len(ViewLines) = 2

(* C10: a rejected hidden-layers edit changes only the stored raw text and  *)
(* the error: the TopologyConfig with its last accepted hidden-layer list,  *)
(* the speed, the diagram name and the render token stay as they were.      *)
C10_RejectedEditFrame ==
    [][(lastName' = "hiddenLayers" /\ error' # Null) =>
          /\ hiddenLayersInput' = lastValue'
          /\ UNCHANGED <<config, speed, diagramName, renderKey>>]_vars

C10_Witness ==
    /\ lastName = "hiddenLayers"
    /\ error = ErrorMessage
    /\ hiddenLayersInput = <<" ">>
    /\ config.hiddenLayers = <<4, 2>>

====
